---- MODULE Spec2Model ----
(***************************************************************************)
(* Model of src/hui.cpp: class Product, class Refrigerator and the command *)
(* loop of main() that calls its methods.                                  *)
(*                                                                         *)
(* Strings (std::string) are strings; find and substr count positions     *)
(* from 0 as in C++, and a character is a string of length one.            *)
(*                                                                         *)
(* Quantities (double) are finite values held as integers counting units   *)
(* of 1/UnitsPerMicro of 10^-6 (0.0000002), so 1.0 is One units.  On these *)
(* values +, -, <, <=, == are exact.  Rounding of binary floating point,   *)
(* infinities and NaN are outside the model.  std::to_string(double)       *)
(* prints with Precision decimals, which is coarser than the unit, so the  *)
(* text of a quantity can differ from the quantity.                        *)
(*                                                                         *)
(* A line written to cout is the sequence of the items streamed before     *)
(* endl (the blank line before a heading is left out); `out' is the        *)
(* sequence of lines the last call printed.                                *)
(***************************************************************************)
EXTENDS Integers, Sequences, FiniteSets, TLC

VARIABLES products, history, out, calls, run, removed, created

vars == <<products, history, out, calls, run, removed, created>>

(* ---------------------------- bounds ----------------------------------- *)

\* longest action log explored
MaxHistory == 3

(* ---------------------------- strings ---------------------------------- *)

\* the characters used, in ASCII order
Ascii ==
  <<" ", "-", ".", "0", "1", "2", "3", "4", "5", "6", "7", "8", "9",
    "C", "I", "a", "b", "d", "e", "f", "i", "k", "l", "m", "n", "o",
    "r", "s", "t", "u">>

Code(c) == CHOOSE i \in 1..Len(Ascii) : Ascii[i] = c

npos == -1

\* s[i] with i counted from 0
at(s, i) == SubSeq(s, i + 1, i + 1)

\* std::string::substr(pos, len); len may run past the end (also npos - pos)
substr(s, pos, len) ==
  LET last == IF len < 0 \/ pos + len > Len(s) THEN Len(s) ELSE pos + len
  IN  SubSeq(s, pos + 1, last)

\* std::string::substr(pos)
substrFrom(s, pos) == SubSeq(s, pos + 1, Len(s))

\* pat occurs in s at position i
matchesAt(s, pat, i) ==
  /\ i + Len(pat) <= Len(s)
  /\ SubSeq(s, i + 1, i + Len(pat)) = pat

\* std::string::find(pat): index of the first occurrence, or npos
find(s, pat) ==
  LET hits == {i \in 0..Len(s) : matchesAt(s, pat, i)}
  IN  IF hits = {} THEN npos
      ELSE CHOOSE i \in hits : \A j \in hits : i <= j

\* std::string operator< : lexicographic on character codes
strLess(a, b) ==
  LET n == IF Len(a) < Len(b) THEN Len(a) ELSE Len(b)
      diff == {i \in 0..(n - 1) : at(a, i) # at(b, i)}
  IN  IF diff = {} THEN Len(a) < Len(b)
      ELSE LET i == CHOOSE k \in diff : \A j \in diff : k <= j
           IN  Code(at(a, i)) < Code(at(b, i))

\* std::string operator>=
strGeq(a, b) == ~strLess(a, b)

(* ---------------------------- quantities ------------------------------- *)

\* digits std::to_string(double) prints after the point ("%f")
Precision == 6

\* units of quantity in 10^-6
UnitsPerMicro == 5

RECURSIVE pow10(_)
pow10(n) == IF n = 0 THEN 1 ELSE 10 * pow10(n - 1)

\* the quantity 1.0
One == UnitsPerMicro * pow10(Precision)

DigitChars == <<"0", "1", "2", "3", "4", "5", "6", "7", "8", "9">>

DigitValue(c) == (CHOOSE i \in 1..10 : DigitChars[i] = c) - 1

IsDigit(c) == \E i \in 1..10 : DigitChars[i] = c

RECURSIVE decimal(_)
\* the decimal digits of a natural number
decimal(n) ==
  IF n < 10 THEN DigitChars[n + 1]
  ELSE decimal(n \div 10) \o DigitChars[(n % 10) + 1]

RECURSIVE padded(_, _)
\* the last w decimal digits of n, with leading zeros
padded(n, w) ==
  IF w = 0 THEN ""
  ELSE padded(n \div 10, w - 1) \o DigitChars[(n % 10) + 1]

\* q rounded to the nearest 10^-6 (no value of the model lies on a tie)
roundMicro(q) == (q + (UnitsPerMicro \div 2)) \div UnitsPerMicro

\* std::to_string(double): "%f", i.e. Precision digits after the point
to_string(q) ==
  LET m == roundMicro(IF q < 0 THEN -q ELSE q)
  IN  (IF q < 0 THEN "-" ELSE "")
        \o decimal(m \div pow10(Precision)) \o "."
        \o padded(m % pow10(Precision), Precision)

RECURSIVE digitsValue(_)
\* value of a (possibly empty) run of digits
digitsValue(s) ==
  IF Len(s) = 0 THEN 0
  ELSE 10 * digitsValue(SubSeq(s, 1, Len(s) - 1))
         + DigitValue(SubSeq(s, Len(s), Len(s)))

\* length of the run of digits s starts with
digitRun(s) ==
  LET stops == {i \in 1..Len(s) : ~IsDigit(SubSeq(s, i, i))}
  IN  IF stops = {} THEN Len(s)
      ELSE (CHOOSE i \in stops : \A j \in stops : i <= j) - 1

\* std::stod on text of the form digits[.digits] (at most Precision digits
\* after the point are significant at the model's resolution)
stod(s) ==
  LET ni   == digitRun(s)
      rest == SubSeq(s, ni + 1, Len(s))
      frac == IF Len(rest) > 0 /\ SubSeq(rest, 1, 1) = "."
              THEN LET r == SubSeq(rest, 2, Len(rest))
                   IN  SubSeq(r, 1, digitRun(r))
              ELSE ""
      f6   == SubSeq(frac \o padded(0, Precision), 1, Precision)
  IN  digitsValue(SubSeq(s, 1, ni)) * One + digitsValue(f6) * UnitsPerMicro

(* ---------------------------- inputs ----------------------------------- *)

milk == "milk"

\* a product whose name is the word consumeProduct logs
Consumed == "Consumed"

Names == {milk, Consumed}

\* 0.0, 0.0000004 and 1.0
Quantities == {0, 2, One}

May01 == "2025-05-01"

Jun01 == "2025-06-01"

Dates == {May01, Jun01}

\* the orders in which an unordered_map holding the keys S may be iterated
Orders(S) ==
  {o \in [1..Cardinality(S) -> S] : \A k \in S : \E i \in DOMAIN o : o[i] = k}

(* ---------------------------- class Product ---------------------------- *)

\* Product(): the default-constructed record
DefaultProduct == [name |-> "", quantity |-> 0, expirationDate |-> ""]

\* mutant: the constructor leaves the expiration date empty
ProductWithoutDate(productName, productQuantity, productExpirationDate) ==
  [name |-> productName, quantity |-> productQuantity, expirationDate |-> ""]

\* Product(productName, productQuantity, productExpirationDate)
Product(productName, productQuantity, productExpirationDate) ==
  [name |-> productName, quantity |-> productQuantity,
   expirationDate |-> productExpirationDate]

\* mutant: the new quantity replaces the stored one
addQuantityOverwrites(p, additionalQuantity) ==
  [p EXCEPT !.quantity = additionalQuantity]

addQuantity(p, additionalQuantity) ==
  [p EXCEPT !.quantity = @ + additionalQuantity]

\* mutant: the consumed quantity is added
consumeQuantityAdds(p, consumedQuantity) ==
  [p EXCEPT !.quantity = @ + consumedQuantity]

consumeQuantity(p, consumedQuantity) ==
  [p EXCEPT !.quantity = @ - consumedQuantity]

(* ---------------------------- class Refrigerator ----------------------- *)

\* unordered_map::operator[]: a missing key is inserted with Product()
subscript(P, k) == IF k \in DOMAIN P THEN P ELSE P @@ (k :> DefaultProduct)

\* mutant: every lookup finds the key
containsAlways(P, k) == TRUE

\* products.find(k) != products.end()
contains(P, k) == k \in DOMAIN P

\* products[k] = v
\* mutant: the assignment leaves a default-constructed record under the key
assignDefaultRecord(P, k, v) ==
  [x \in DOMAIN P \cup {k} |-> IF x = k THEN DefaultProduct ELSE P[x]]

assign(P, k, v) == [x \in DOMAIN P \cup {k} |-> IF x = k THEN v ELSE P[x]]

\* unordered_map::erase
erase(P, k) == [x \in DOMAIN P \ {k} |-> P[x]]

\* mutant: the log keeps the last action only
logActionReplaces(H, action) == <<action>>

\* mutant: the action is put in front of the log
logActionPrepends(H, action) == <<action>> \o H

logAction(H, action) == Append(H, action)

\* mutant: an item that expires on the current date is kept
isExpiredStrict(currentDate, expirationDate) ==
  strLess(expirationDate, currentDate)

\* mutant: only an item that expires on the current date itself is expired
isExpiredOnTheDay(currentDate, expirationDate) == currentDate = expirationDate

isExpired(currentDate, expirationDate) == strGeq(currentDate, expirationDate)

InsertedWord == "Inserted"

ConsumedWord == "Consumed"

Space == " "

OfSep == " of "

\* "Inserted " + to_string(productQuantity) + " of " + productName
insertRecord(productName, productQuantity) ==
  InsertedWord \o Space \o to_string(productQuantity) \o OfSep \o productName

\* "Consumed " + to_string(productQuantity) + " of " + productName
consumeRecord(productName, productQuantity) ==
  ConsumedWord \o Space \o to_string(productQuantity) \o OfSep \o productName

\* mutant: only a negative quantity is refused
invalidQuantityNegativeOnly(productQuantity) == productQuantity < 0

\* the quantity check insertProduct and consumeProduct start with
invalidQuantity(productQuantity) == productQuantity <= 0

\* mutant: the comparison is the wrong way round
notEnoughReversed(stored, productQuantity) == stored > productQuantity

\* mutant: the stored quantity is not checked
notEnoughSkipped(stored, productQuantity) == FALSE

\* the check consumeProduct makes before it subtracts
notEnough(stored, productQuantity) == stored < productQuantity

\* mutant: an item is removed only below zero
reachedZeroBelow(stored) == stored < 0

\* the check consumeProduct makes after it subtracted
reachedZero(stored) == stored = 0

insertProduct(P, H, productName, productQuantity, productExpirationDate) ==
  IF invalidQuantity(productQuantity)
  THEN [products |-> P, history |-> H,
        out |-> <<<<"Error: Product quantity must be greater than zero.">>>>]
  ELSE LET P1 == IF contains(P, productName)
                 THEN LET Q == subscript(P, productName)
                      IN  [Q EXCEPT
                             ![productName] = addQuantity(@, productQuantity)]
                 ELSE assign(P, productName,
                             Product(productName, productQuantity,
                                     productExpirationDate))
       IN  [products |-> P1,
            history |-> logAction(H, insertRecord(productName, productQuantity)),
            out |-> << >>]

\* consumeProduct with the lookup of the name before the quantity check
consumeProductAbsentFirst(P, H, productName, productQuantity) ==
  IF ~contains(P, productName)
  THEN [products |-> P, history |-> H,
        out |-> <<<<"Product not found in refrigerator.">>>>]
  ELSE IF invalidQuantity(productQuantity)
  THEN [products |-> P, history |-> H,
        out |-> <<<<"Error: Consumed quantity must be greater than zero.">>>>]
  ELSE IF notEnough(P[productName].quantity, productQuantity)
  THEN [products |-> P, history |-> H,
        out |-> <<<<"Not enough quantity to consume.">>>>]
  ELSE LET P2 == [P EXCEPT ![productName] = consumeQuantity(@, productQuantity)]
       IN  [products |-> IF reachedZero(P2[productName].quantity)
                         THEN erase(P2, productName)
                         ELSE P2,
            history |-> logAction(H, consumeRecord(productName, productQuantity)),
            out |-> << >>]

consumeProduct(P, H, productName, productQuantity) ==
  IF invalidQuantity(productQuantity)
  THEN [products |-> P, history |-> H,
        out |-> <<<<"Error: Consumed quantity must be greater than zero.">>>>]
  ELSE IF ~contains(P, productName)
  THEN [products |-> P, history |-> H,
        out |-> <<<<"Product not found in refrigerator.">>>>]
  ELSE LET P1 == subscript(P, productName)
       IN  IF notEnough(P1[productName].quantity, productQuantity)
           THEN [products |-> P1, history |-> H,
                 out |-> <<<<"Not enough quantity to consume.">>>>]
           ELSE LET P2 == [subscript(P1, productName) EXCEPT
                             ![productName] = consumeQuantity(@, productQuantity)]
                    H1 == logAction(H, consumeRecord(productName, productQuantity))
                    P3 == subscript(P2, productName)
                IN  [products |-> IF reachedZero(P3[productName].quantity)
                                  THEN erase(P3, productName)
                                  ELSE P3,
                     history |-> H1,
                     out |-> << >>]

RECURSIVE statusLines(_, _)
\* the loop of showStatus over the map, visited in the order it
statusLines(P, it) ==
  IF it = << >> THEN << >>
  ELSE LET item == P[Head(it)]
       IN  <<<<"- ", item.name, ": ", item.quantity, " (Expires: ",
               item.expirationDate, ")">>>> \o statusLines(P, Tail(it))

showStatus(P, it) ==
  <<<<"--- Current Refrigerator Status ---">>>>
    \o (IF DOMAIN P = {} THEN <<<<"The refrigerator is empty.">>>>
        ELSE statusLines(P, it))

RECURSIVE historyLinesNewestFirst(_)
\* mutant: the log is listed from its last record to its first
historyLinesNewestFirst(H) ==
  IF H = << >> THEN << >>
  ELSE historyLinesNewestFirst(Tail(H)) \o <<<<"- ", Head(H)>>>>

RECURSIVE historyLines(_)
historyLines(H) ==
  IF H = << >> THEN << >>
  ELSE <<<<"- ", Head(H)>>>> \o historyLines(Tail(H))

showHistory(H) ==
  <<<<"--- History of Actions ---">>>>
    \o (IF H = << >> THEN <<<<"No actions recorded yet.">>>> ELSE historyLines(H))

RECURSIVE expireLoop(_, _, _, _, _)
\* the loop of checkExpirations: it is the keys still to visit, in map order
expireLoop(P, it, currentDate, lines, expiredFound) ==
  IF it = << >>
  THEN [products |-> P, lines |-> lines, expiredFound |-> expiredFound]
  ELSE LET item == P[Head(it)]
       IN  IF isExpired(currentDate, item.expirationDate)
           THEN expireLoop(erase(P, Head(it)), Tail(it), currentDate,
                           Append(lines, <<"Product ", item.name,
                                           " has expired. Please remove it.">>),
                           TRUE)
           ELSE expireLoop(P, Tail(it), currentDate, lines, expiredFound)

\* mutant: the closing message is printed whatever the loop found
checkExpirationsAlwaysNone(P, it, currentDate) ==
  LET r == expireLoop(P, it, currentDate, << >>, FALSE)
  IN  [products |-> r.products,
       out |-> <<<<"--- Checking Expired Products ---">>>> \o r.lines
                 \o <<<<"No expired products found.">>>>]

checkExpirations(P, it, currentDate) ==
  LET r == expireLoop(P, it, currentDate, << >>, FALSE)
  IN  [products |-> r.products,
       out |-> <<<<"--- Checking Expired Products ---">>>> \o r.lines
                 \o (IF ~r.expiredFound THEN <<<<"No expired products found.">>>>
                     ELSE << >>)]

\* consumptionMap[productName] += consumedQuantity
accumulate(M, productName, consumedQuantity) ==
  LET M1 == IF productName \in DOMAIN M THEN M ELSE M @@ (productName :> 0)
  IN  [M1 EXCEPT ![productName] = @ + consumedQuantity]

\* one pass of the parsing loop of generateShoppingList
parseEntry(M, entry) ==
  IF find(entry, ConsumedWord) # npos
  THEN LET quantityStart    == find(entry, Space) + 1
           quantityEnd      == find(entry, OfSep)
           consumedQuantity == stod(substr(entry, quantityStart,
                                           quantityEnd - quantityStart))
           productName      == substrFrom(entry, quantityEnd + 4)
       IN  accumulate(M, productName, consumedQuantity)
  ELSE M

RECURSIVE consumptionMap(_, _)
\* the map after the parsing loop has visited the entries of H, starting at M
consumptionMap(M, H) ==
  IF H = << >> THEN M ELSE consumptionMap(parseEntry(M, Head(H)), Tail(H))

RECURSIVE shoppingLines(_, _)
shoppingLines(M, it) ==
  IF it = << >> THEN << >>
  ELSE <<<<"- Buy more ", Head(it), " (", M[Head(it)], ")">>>>
         \o shoppingLines(M, Tail(it))

generateShoppingList(M, it) ==
  <<<<"--- Generated Shopping List ---">>>>
    \o (IF DOMAIN M = {} THEN <<<<"No items to suggest for shopping.">>>>
        ELSE shoppingLines(M, it))

(* ---------------------------- the program ------------------------------ *)

\* what the observer notes of a call that succeeded
Call(op, productName, productQuantity) ==
  [op |-> op, name |-> productName, quantity |-> productQuantity]

\* run[n]: the successful inserts of n since n was last absent, as long as
\* no consume of n and no sweep followed them: how many, the sum of their
\* quantities and the date of the first
Fresh == [ok |-> TRUE, count |-> 0, total |-> 0, first |-> ""]

\* the inserts of n were followed by a consume of n or by a sweep
Broken == [ok |-> FALSE, count |-> 0, total |-> 0, first |-> ""]

\* removed[n]: whether a consume, and whether a sweep, has ever taken n out
\* of the ledger
NeverRemoved == [byConsume |-> FALSE, bySweep |-> FALSE]

\* created[n]: the expiration date given to the insert that put n into the
\* ledger, "" while n is not in it

\* Refrigerator fridge; nothing called yet
Init ==
  /\ products = [k \in {} |-> DefaultProduct]
  /\ history = << >>
  /\ out = << >>
  /\ calls = << >>
  /\ run = [n \in Names |-> Fresh]
  /\ removed = [n \in Names |-> NeverRemoved]
  /\ created = [n \in Names |-> ""]

\* insertProduct and consumeProduct return without a message when they succeed
succeeded(r) == r.out = << >>

\* the log and the observer's list are explored up to MaxHistory entries
roomInLog == Len(history) < MaxHistory /\ Len(calls) < MaxHistory

\* case 1 of main
InsertProduct ==
  /\ roomInLog
  /\ \E productName \in Names, productQuantity \in Quantities,
     expirationDate \in Dates :
    LET c == Call("insertProduct", productName, productQuantity)
    IN  \E r \in {insertProduct(products, history, productName, productQuantity,
                                expirationDate)} :
        /\ products' = r.products
        /\ history' = r.history
        /\ out' = r.out
        /\ calls' = IF succeeded(r) THEN Append(calls, c) ELSE calls
        /\ run' = IF ~succeeded(r) THEN run
                  ELSE [run EXCEPT ![productName] =
                          IF productName \notin DOMAIN products
                          THEN [ok |-> TRUE, count |-> 1,
                                total |-> productQuantity,
                                first |-> expirationDate]
                          ELSE IF @.ok
                          THEN [@ EXCEPT !.count = @ + 1,
                                         !.total = @ + productQuantity]
                          ELSE @]
        /\ created' = IF succeeded(r) /\ productName \notin DOMAIN products
                       THEN [created EXCEPT ![productName] = expirationDate]
                       ELSE created
        /\ UNCHANGED removed

\* case 2 of main
ConsumeProduct ==
  /\ roomInLog
  /\ \E productName \in Names, productQuantity \in Quantities :
    LET c == Call("consumeProduct", productName, productQuantity)
    IN  \E r \in {consumeProduct(products, history, productName,
                                 productQuantity)} :
        /\ products' = r.products
        /\ history' = r.history
        /\ out' = r.out
        /\ calls' = IF succeeded(r) THEN Append(calls, c) ELSE calls
        /\ run' = IF ~succeeded(r) THEN run
                  ELSE [run EXCEPT ![productName] =
                          IF productName \in DOMAIN r.products
                          THEN Broken ELSE Fresh]
        /\ removed' = IF succeeded(r) /\ productName \notin DOMAIN r.products
                       THEN [removed EXCEPT ![productName].byConsume = TRUE]
                       ELSE removed
        /\ created' = IF succeeded(r) /\ productName \notin DOMAIN r.products
                       THEN [created EXCEPT ![productName] = ""]
                       ELSE created

\* case 3 of main
ShowStatus ==
  \E it \in Orders(DOMAIN products) :
    /\ out' = showStatus(products, it)
    /\ UNCHANGED <<products, history, calls, run, removed, created>>

\* case 4 of main
ShowHistory ==
  /\ out' = showHistory(history)
  /\ UNCHANGED <<products, history, calls, run, removed, created>>

\* case 5 of main
CheckExpirations ==
  \E currentDate \in Dates, it \in Orders(DOMAIN products) :
    \E r \in {checkExpirations(products, it, currentDate)} :
        /\ products' = r.products
        /\ out' = r.out
        /\ run' = [n \in Names |->
                     IF n \in DOMAIN r.products THEN Broken
                     ELSE IF n \in DOMAIN products THEN Fresh
                     ELSE run[n]]
        /\ removed' = [n \in Names |->
                         IF n \in DOMAIN products \ DOMAIN r.products
                         THEN [removed[n] EXCEPT !.bySweep = TRUE]
                         ELSE removed[n]]
        /\ created' = [n \in Names |->
                         IF n \in DOMAIN r.products THEN created[n] ELSE ""]
        /\ UNCHANGED <<history, calls>>

\* case 6 of main
GenerateShoppingList ==
  \E M \in {consumptionMap([k \in {} |-> 0], history)} :
    \E it \in Orders(DOMAIN M) :
        /\ out' = generateShoppingList(M, it)
        /\ UNCHANGED <<products, history, calls, run, removed, created>>

\* the switch of main's loop
Next ==
  \/ InsertProduct
  \/ ConsumeProduct
  \/ ShowStatus
  \/ ShowHistory
  \/ CheckExpirations
  \/ GenerateShoppingList

Spec == Init /\ [][Next]_vars

(* ---------------------------- properties ------------------------------- *)

\* what a failed call returns: the message, and the ledger and log it was given
failed(P, H, message) == [products |-> P, history |-> H, out |-> <<<<message>>>>]

\* quantities a call may be given besides those the actions draw
NonPositive == {0, -2, -One}

isConsume(c) == c.op = "consumeProduct"

isInsert(c) == c.op = "insertProduct"

lastCall == calls[Len(calls)]

\* C1: while a name has only been inserted since it was last absent (k >= 1
\* successful inserts, no consume of it and no sweep since), the ledger holds
\* one record under that name, whose quantity is the sum of the inserted
\* quantities and whose expiration date is that of the first insert.
C1_InsertsSumFirstDate ==
  \A n \in Names :
    (run[n].ok /\ run[n].count >= 1) =>
      /\ n \in DOMAIN products
      /\ products[n].name = n
      /\ products[n].quantity = run[n].total
      /\ products[n].expirationDate = run[n].first

\* two inserts of one name, then a status that lists it
C1_Witness ==
  /\ \E n \in Names : run[n].ok /\ run[n].count = 2
  /\ Len(out) = 2
  /\ out[1] = <<"--- Current Refrigerator Status ---">>

\* C2: in a reachable state, consumeProduct of a present name with more than
\* its stored quantity reports "Not enough quantity to consume." and returns
\* the ledger and the log it was given.
C2_InsufficientIsNoOp ==
  \A n \in DOMAIN products :
    \A q \in Quantities \cup {products[n].quantity + 2,
                              products[n].quantity + One} :
      q > products[n].quantity =>
        consumeProduct(products, history, n, q)
          = failed(products, history, "Not enough quantity to consume.")

\* a consume was just refused for want of quantity, with a non-empty log
C2_Witness ==
  /\ out = <<<<"Not enough quantity to consume.">>>>
  /\ DOMAIN products # {}
  /\ history # << >>

\* C3: in a reachable state, consumeProduct of a present name with exactly
\* its stored quantity succeeds, removes the name from the ledger, so that
\* the status lists it no more (and reports empty if it was the only item),
\* and appends the Consume record to the log, after the Insert record(s).
C3_FullConsumeRemoves ==
  \A n \in DOMAIN products :
    LET q == products[n].quantity
        r == consumeProduct(products, history, n, q)
    IN  /\ r.out = << >>
        /\ DOMAIN r.products = DOMAIN products \ {n}
        /\ r.history = Append(history, consumeRecord(n, q))
        /\ \E i \in 1..Len(history), qi \in Quantities :
             history[i] = insertRecord(n, qi)
        /\ \A it \in Orders(DOMAIN r.products) :
             LET lines == showStatus(r.products, it)
             IN  IF DOMAIN products = {n}
                 THEN lines = <<<<"--- Current Refrigerator Status ---">>,
                                <<"The refrigerator is empty.">>>>
                 ELSE /\ Len(lines) = Cardinality(DOMAIN products)
                      /\ \A i \in 2..Len(lines) : lines[i][2] # n

\* an insert, a consume of all of it, and then a status reporting empty
C3_Witness ==
  /\ Len(calls) = 2
  /\ isInsert(calls[1])
  /\ isConsume(calls[2])
  /\ calls[2].name = calls[1].name
  /\ calls[2].quantity = calls[1].quantity
  /\ history = <<insertRecord(calls[1].name, calls[1].quantity),
                 consumeRecord(calls[2].name, calls[2].quantity)>>
  /\ out = <<<<"--- Current Refrigerator Status ---">>,
             <<"The refrigerator is empty.">>>>

\* the ledger checkExpirations(currentDate) must leave
keptBy(P, currentDate) ==
  [n \in {k \in DOMAIN P : strLess(currentDate, P[k].expirationDate)} |-> P[n]]

isSweepOutput(o) == o # << >> /\ o[1] = <<"--- Checking Expired Products ---">>

\* C4: for every reachable ledger, every current date and every iteration
\* order, checkExpirations removes exactly the items whose expiration date
\* is <= the current date in string order and keeps the others as they
\* were; and a step that is a sweep leaves the action log unchanged.
C4_SweepRemovesExactlyExpired ==
  /\ [](\A currentDate \in Dates : \A it \in Orders(DOMAIN products) :
          checkExpirations(products, it, currentDate).products
            = keptBy(products, currentDate))
  /\ [][isSweepOutput(out') => history' = history]_vars

\* a sweep that removed one item and kept another, the log not empty
C4_Witness ==
  /\ isSweepOutput(out)
  /\ Len(out) = 2
  /\ out[2][1] = "Product "
  /\ DOMAIN products # {}
  /\ Len(history) >= 2

RECURSIVE consumedTotal(_, _)
\* the sum of the quantities of the successful consumes of n among C
consumedTotal(C, n) ==
  IF C = << >> THEN 0
  ELSE (IF isConsume(Head(C)) /\ Head(C).name = n THEN Head(C).quantity ELSE 0)
         + consumedTotal(Tail(C), n)

\* C5: the shopping list has an entry for a name exactly when a consume of
\* that name has succeeded, and the entry's total is the sum of the
\* quantities of the successful consumes of that name.
C5_ShoppingListIsConsumption ==
  LET M == consumptionMap([k \in {} |-> 0], history)
  IN  \A n \in Names \cup DOMAIN M :
        /\ n \in DOMAIN M <=>
             \E i \in 1..Len(calls) : isConsume(calls[i]) /\ calls[i].name = n
        /\ n \in DOMAIN M => M[n] = consumedTotal(calls, n)

\* C6: in a reachable state, consumeProduct of an absent name with a
\* positive quantity reports "Product not found in refrigerator." and
\* returns the ledger (with no record for the name) and the log it was given.
C6_AbsentIsNoOp ==
  \A n \in Names \ DOMAIN products :
    \A q \in Quantities :
      q > 0 =>
        consumeProduct(products, history, n, q)
          = failed(products, history, "Product not found in refrigerator.")

\* a consume of an absent name was just refused while the ledger held another
C6_Witness ==
  /\ out = <<<<"Product not found in refrigerator.">>>>
  /\ DOMAIN products # {}
  /\ DOMAIN products # Names

\* C7: in a reachable state, insertProduct and consumeProduct with a
\* quantity <= 0 report their validation error and return the ledger and
\* the log they were given, whether or not the name is present.
C7_InvalidQuantityIsNoOp ==
  \A n \in Names : \A q \in NonPositive :
    /\ \A d \in Dates :
         insertProduct(products, history, n, q, d)
           = failed(products, history,
                    "Error: Product quantity must be greater than zero.")
    /\ consumeProduct(products, history, n, q)
         = failed(products, history,
                  "Error: Consumed quantity must be greater than zero.")

\* an insert was just refused for its quantity, in a ledger that holds one
\* of the two names
C7_Witness ==
  /\ out = <<<<"Error: Product quantity must be greater than zero.">>>>
  /\ Cardinality(DOMAIN products) = 1
  /\ history # << >>

isPrefix(a, b) == Len(a) <= Len(b) /\ SubSeq(b, 1, Len(a)) = a

\* C8: in every step, whichever operation takes it, the log before the step
\* is a prefix of the log after it.
C8_LogAppendOnly == [][isPrefix(history, history')]_vars

\* the history was just shown, with two records or more
C8_Witness ==
  /\ Len(history) >= 2
  /\ out = showHistory(history)

\* the record a successful call appends
recordOf(c) ==
  IF isInsert(c) THEN insertRecord(c.name, c.quantity)
  ELSE consumeRecord(c.name, c.quantity)

\* C9: the log is the sequence of the calls of insertProduct and
\* consumeProduct that succeeded, in the order they were made: one record
\* for each, of its kind, with its quantity as to_string prints it and its
\* name.
C9_LogIsSuccessfulCalls ==
  /\ Len(history) = Len(calls)
  /\ \A i \in 1..Len(calls) : history[i] = recordOf(calls[i])

\* a log of an insert and a consume, after a call that failed
C9_Witness ==
  /\ Len(calls) >= 2
  /\ \E i \in 1..Len(calls) : isInsert(calls[i])
  /\ \E i \in 1..Len(calls) : isConsume(calls[i])
  /\ out = <<<<"Error: Consumed quantity must be greater than zero.">>>>

\* C10: every item in the ledger has a quantity greater than zero.
C10_QuantitiesPositive ==
  \A n \in DOMAIN products : products[n].quantity > 0

\* a consume just took part of an item's quantity
C10_Witness ==
  /\ calls # << >>
  /\ isConsume(lastCall)
  /\ out = << >>
  /\ lastCall.name \in DOMAIN products

\* the records of the names other than n are the same in P and Q
sameOthers(P, Q, n) ==
  /\ DOMAIN Q \ {n} = DOMAIN P \ {n}
  /\ \A m \in DOMAIN P \ {n} : Q[m] = P[m]

\* quantities around the stored quantity of n, besides those the actions draw
nearStored(n) ==
  IF n \in DOMAIN products
  THEN {products[n].quantity - 2, products[n].quantity,
        products[n].quantity + 2}
  ELSE {}

\* the ledger changes only in a call that prints no message or in a sweep,
\* so the states such a step leaves (and the initial one) hold every ledger
\* the program reaches
ledgerIsNew == out = << >> \/ isSweepOutput(out)

\* C11: in a reachable state, a consumeProduct of n with 0 < q < stored
\* quantity succeeds and leaves n in the ledger with its quantity reduced by
\* q and its name and expiration date unchanged; and every insertProduct
\* and consumeProduct on n, whatever its outcome, leaves the records of the
\* other names as they were.
C11_PartialConsumeAndFrame ==
  ledgerIsNew =>
    \A n \in Names :
      \A q \in Quantities \cup NonPositive \cup nearStored(n) :
        LET rc == consumeProduct(products, history, n, q)
        IN  /\ (n \in DOMAIN products /\ 0 < q /\ q < products[n].quantity) =>
                  /\ rc.out = << >>
                  /\ n \in DOMAIN rc.products
                  /\ rc.products[n] = [products[n] EXCEPT !.quantity = @ - q]
            /\ sameOthers(products, rc.products, n)
            /\ \A d \in Dates :
                 sameOthers(products,
                            insertProduct(products, history, n, q, d).products, n)

\* a consume just took part of one item while the ledger held another
C11_Witness ==
  /\ calls # << >>
  /\ isConsume(lastCall)
  /\ out = << >>
  /\ lastCall.name \in DOMAIN products
  /\ Cardinality(DOMAIN products) = 2

wasRemoved(n) == removed[n].byConsume \/ removed[n].bySweep

\* C12: once a name has been removed from the ledger, by a consume that
\* took all of it or by a sweep, a successful insertProduct(n, q, d) makes
\* a record with quantity q and expiration date d, and the record of the
\* ledger after that insert is that one.
C12_ReinsertIsFresh ==
  /\ \A n \in Names \ DOMAIN products :
       wasRemoved(n) =>
         \A q \in Quantities, d \in Dates :
           q > 0 =>
             LET r == insertProduct(products, history, n, q, d)
             IN  /\ r.out = << >>
                 /\ r.products[n] =
                      [name |-> n, quantity |-> q, expirationDate |-> d]
  /\ \A n \in DOMAIN products :
       (wasRemoved(n) /\ run[n].ok /\ run[n].count = 1) =>
         products[n] = [name |-> n, quantity |-> run[n].total,
                        expirationDate |-> run[n].first]

\* a name that a consume had removed was just inserted again
C12_Witness ==
  /\ calls # << >>
  /\ isInsert(lastCall)
  /\ out = << >>
  /\ removed[lastCall.name].byConsume
  /\ run[lastCall.name].ok
  /\ run[lastCall.name].count = 1
  /\ lastCall.name \in DOMAIN products

\* the entry is a record of the kind word ("Inserted" or "Consumed") for n
isRecordOf(entry, word, n) ==
  /\ find(entry, word \o Space) = 0
  /\ find(entry, OfSep) # npos
  /\ substrFrom(entry, find(entry, OfSep) + 4) = n

\* the quantity written in a record
recordQuantity(entry) ==
  stod(substr(entry, find(entry, Space) + 1,
              find(entry, OfSep) - (find(entry, Space) + 1)))

RECURSIVE logTotal(_, _, _)
\* the sum of the quantities written in the records of kind word for n
logTotal(H, word, n) ==
  IF H = << >> THEN 0
  ELSE (IF isRecordOf(Head(H), word, n) THEN recordQuantity(Head(H)) ELSE 0)
         + logTotal(Tail(H), word, n)

ledgerQuantity(n) == IF n \in DOMAIN products THEN products[n].quantity ELSE 0

\* C13: for every name no sweep has removed, the quantity in the ledger (0
\* when the name is absent) is the total of the Insert records of the name
\* in the log minus the total of its Consume records.
C13_LedgerEqualsLogBalance ==
  \A n \in Names :
    ~removed[n].bySweep =>
      ledgerQuantity(n) = logTotal(history, InsertedWord, n)
                            - logTotal(history, ConsumedWord, n)

(* ------------- the round trip of one Consume record -------------------- *)

\* names with a space, with the separator " of " and with the logged word.
\* main reads a name with cin >> productName, one word; the methods of
\* Refrigerator take any string, and this specification calls them as a
\* program that uses the class may.
RTNames == {"milk", "new milk", "a of b", "Consumed"}

\* 0.0000004, 0.0000006, 0.5, 1.0, 1.0000004, 2.0, 12.5 and 20.0
RTQuantities ==
  {2, 3, One \div 2, One, One + 2, 2 * One, 12 * One + One \div 2, 20 * One}

\* the quantity the ledger holds of the one item: 1.0 or 20.0
RTStock == {One, 20 * One}

\* case 1 of main, once, on the new fridge: one item is put in. The
\* observers run, removed and created are kept for the names of Names in
\* Spec only; this specification leaves them as they start.
RTInsert ==
  /\ history = << >>
  /\ \E productName \in RTNames, productQuantity \in RTStock :
       \E r \in {insertProduct(products, history, productName,
                               productQuantity, May01)} :
         /\ products' = r.products
         /\ history' = r.history
         /\ out' = r.out
         /\ calls' = Append(calls, Call("insertProduct", productName,
                                        productQuantity))
         /\ UNCHANGED <<run, removed, created>>

\* case 2 of main, once, on the item the fridge holds
RTConsume ==
  /\ Len(history) = 1
  /\ \E productName \in DOMAIN products, productQuantity \in RTQuantities :
       \E r \in {consumeProduct(products, history, productName,
                                productQuantity)} :
         /\ products' = r.products
         /\ history' = r.history
         /\ out' = r.out
         /\ calls' = IF succeeded(r)
                     THEN Append(calls, Call("consumeProduct", productName,
                                             productQuantity))
                     ELSE calls
         /\ UNCHANGED <<run, removed, created>>

RTNext == RTInsert \/ RTConsume \/ GenerateShoppingList

RoundTripSpec == Init /\ [][RTNext]_vars

\* C14: the record a successful consumeProduct(n, q) appends, parsed as
\* generateShoppingList parses it, gives back the name n and the quantity
\* q, also when n holds a space or the text " of ".
C14_RoundTrip ==
  (Len(calls) = 2 /\ Len(history) = 2) =>
    LET M == parseEntry([k \in {} |-> 0], history[2])
    IN  /\ DOMAIN M = {calls[2].name}
        /\ M[calls[2].name] = calls[2].quantity

\* C15: consumeProduct tests its failure conditions in a fixed order and
\* has exactly one outcome: a quantity <= 0 gives the validation error, also
\* when the name is absent; otherwise an absent name gives not-found;
\* otherwise a stored quantity below the requested one gives not-enough;
\* otherwise the call succeeds, with no message and one more record.
C15_ConsumeCheckOrder ==
  \A n \in Names :
    \A q \in Quantities \cup NonPositive \cup nearStored(n) :
      LET r == consumeProduct(products, history, n, q)
          present == n \in DOMAIN products
      IN  /\ q <= 0 =>
               r.out = <<<<"Error: Consumed quantity must be greater than zero.">>>>
          /\ (q > 0 /\ ~present) =>
               r.out = <<<<"Product not found in refrigerator.">>>>
          /\ (q > 0 /\ present /\ products[n].quantity < q) =>
               r.out = <<<<"Not enough quantity to consume.">>>>
          /\ (q > 0 /\ present /\ products[n].quantity >= q) =>
               r.out = << >> /\ Len(r.history) = Len(history) + 1
          /\ Len(r.out) <= 1
          /\ r.out # << >> => r.history = history

\* a consume of a quantity <= 0 was refused while the ledger was empty, so
\* the name was absent as well
C15_Witness ==
  /\ out = <<<<"Error: Consumed quantity must be greater than zero.">>>>
  /\ DOMAIN products = {}
  /\ history # << >>

expiredReport(n) == <<"Product ", n, " has expired. Please remove it.">>

noneExpired == <<"No expired products found.">>

\* how many lines of the output o are the line l
occurrences(o, l) == Cardinality({i \in DOMAIN o : o[i] = l})

\* C16: for every reachable ledger, current date and iteration order,
\* checkExpirations prints the name of each item it removes exactly once,
\* prints no report for an item it keeps, prints nothing else, and prints
\* "No expired products found." exactly when it removed nothing (an empty
\* ledger included).
C16_SweepReport ==
  \A currentDate \in Dates : \A it \in Orders(DOMAIN products) :
    LET r    == checkExpirations(products, it, currentDate)
        gone == DOMAIN products \ DOMAIN r.products
    IN  /\ \A n \in gone : occurrences(r.out, expiredReport(n)) = 1
        /\ \A n \in Names \ gone : occurrences(r.out, expiredReport(n)) = 0
        /\ occurrences(r.out, noneExpired) = (IF gone = {} THEN 1 ELSE 0)
        /\ Len(r.out) = 1 + (IF gone = {} THEN 1 ELSE Cardinality(gone))

\* a sweep removed one item, reported it, and kept another
C16_Witness ==
  /\ isSweepOutput(out)
  /\ Len(out) = 2
  /\ out[2] # noneExpired
  /\ DOMAIN products # {}
  /\ \E n \in Names : removed[n].bySweep /\ out[2] = expiredReport(n)

statusHeader == <<"--- Current Refrigerator Status ---">>

historyHeader == <<"--- History of Actions ---">>

shoppingHeader == <<"--- Generated Shopping List ---">>

isQueryOutput(o) ==
  o # << >> /\ o[1] \in {statusHeader, historyHeader, shoppingHeader}

isShoppingOutput(o) == o # << >> /\ o[1] = shoppingHeader

linesOf(o) == {o[i] : i \in DOMAIN o}

\* C17: a step that is showStatus, showHistory or generateShoppingList
\* leaves ledger and log as they were; two shopping lists in a row hold the
\* same set of entries; and showHistory prints the records of the log in
\* the order they were appended, oldest first.
C17_QueriesAreReadOnly ==
  /\ [][/\ isQueryOutput(out') => (products' = products /\ history' = history)
        /\ (isShoppingOutput(out) /\ isShoppingOutput(out')) =>
             linesOf(out') = linesOf(out)]_vars
  /\ [](/\ history # << >> =>
             showHistory(history) =
               <<historyHeader>> \o [i \in 1..Len(history) |-> <<"- ", history[i]>>]
        /\ history = << >> =>
             showHistory(history) = <<historyHeader, <<"No actions recorded yet.">>>>)

\* showHistory printed a log of at least two different records
C17_Witness ==
  /\ out # << >>
  /\ out[1] = historyHeader
  /\ Len(history) >= 2
  /\ history[1] # history[2]
  /\ out = showHistory(history)

\* the dates a sweep may be run at: before, at and between the expiration
\* dates of the items
SweepDates == Dates \cup {"2025-04-01", "2025-05-15"}

\* the ledgers a sweep of P at currentDate may leave, over the iteration orders
sweptLedgers(P, currentDate) ==
  {checkExpirations(P, it, currentDate).products : it \in Orders(DOMAIN P)}

\* C18: a sweep is idempotent (the same sweep again leaves the ledger as
\* the first left it and reports no expired product) and monotone in the
\* date (for c1 <= c2, a sweep at c1 followed by one at c2 leaves the
\* ledger that a sweep at c2 alone leaves), for every iteration order.
C18_SweepIdempotentMonotone ==
  ledgerIsNew =>
    LET alone == [c \in SweepDates |-> sweptLedgers(products, c)]
    IN  /\ \A c \in SweepDates : Cardinality(alone[c]) = 1
        /\ \A c1 \in SweepDates : \A first \in alone[c1] :
             /\ \A it \in Orders(DOMAIN first) :
                  LET again == checkExpirations(first, it, c1)
                  IN  /\ again.products = first
                      /\ again.out =
                           <<<<"--- Checking Expired Products ---">>, noneExpired>>
             /\ \A c2 \in SweepDates :
                  (c1 = c2 \/ strLess(c1, c2)) =>
                    sweptLedgers(first, c2) = alone[c2]

\* a sweep that found nothing ran after a sweep that had removed an item,
\* on a ledger that still holds one
C18_Witness ==
  /\ out = <<<<"--- Checking Expired Products ---">>, noneExpired>>
  /\ \E n \in Names : removed[n].bySweep
  /\ DOMAIN products # {}

\* C19: every record of the ledger carries the key it is stored under as
\* its name and the expiration date of the insert that created it, and no
\* call of insertProduct or consumeProduct, whatever its input, leaves a
\* default-constructed record (empty name, zero quantity, empty date).
C19_RecordsWellFormed ==
  /\ \A k \in DOMAIN products :
       /\ products[k].name = k
       /\ products[k].expirationDate = created[k]
       /\ products[k] # DefaultProduct
  /\ ledgerIsNew =>
       \A n \in Names : \A q \in Quantities \cup NonPositive \cup nearStored(n) :
         /\ LET rc == consumeProduct(products, history, n, q).products
            IN  \A k \in DOMAIN rc : rc[k] # DefaultProduct /\ rc[k].name = k
         /\ \A d \in Dates :
              LET ri == insertProduct(products, history, n, q, d).products
              IN  \A k \in DOMAIN ri : ri[k] # DefaultProduct /\ ri[k].name = k

\* the ledger holds two records, one of them created again after its name
\* had been removed
C19_Witness ==
  /\ Cardinality(DOMAIN products) = 2
  /\ \E n \in DOMAIN products : wasRemoved(n) /\ created[n] # ""

====
